---- MODULE Spec2Model ----
(***************************************************************************)
(* PBX telephone exchange: the TU call state machine (tu.c, kept here as   *)
(* src/unnamed/part_000), the PBX registry (pbx.c) and the per-client      *)
(* service thread (server.c).                                              *)
(*                                                                         *)
(* Every thread advances one step at a time.  A step starts at a blocking  *)
(* call (sem_wait, read) and runs to the next blocking call; a step also   *)
(* ends where the code releases a TU semaphore and then reads that TU's    *)
(* fields again (tu->peer after sem_post(&tu->tu_mutex)).                  *)
(***************************************************************************)
EXTENDS Integers, FiniteSets, Sequences, TLC

\* ---------------------------------------------------------------- bounds
NumTU == 3
MaxEvents == 5
MaxDrops == 1
MaxScript == 4
PBX_MAX_EXTENSIONS == 3

\* ------------------------------------------------------------- constants
NULL == 0
TUs == 1 .. NumTU
Exts == 0 .. (PBX_MAX_EXTENSIONS - 1)

TU_ON_HOOK == "ON_HOOK"
TU_RINGING == "RINGING"
TU_DIAL_TONE == "DIAL_TONE"
TU_RING_BACK == "RING_BACK"
TU_BUSY_SIGNAL == "BUSY_SIGNAL"
TU_CONNECTED == "CONNECTED"
TU_ERROR == "ERROR"
TU_STATE ==
  {TU_ON_HOOK, TU_RINGING, TU_DIAL_TONE, TU_RING_BACK, TU_BUSY_SIGNAL,
   TU_CONNECTED, TU_ERROR}

\* The connection descriptor of the session that owns TU t; the service
\* thread registers its TU at extension connfd.
Fd(t) == t - 1

\* The arguments a client can give to dial: -1 stands for a malformed
\* number, PBX_MAX_EXTENSIONS for a number beyond the table.
DialArgs == (-1) .. PBX_MAX_EXTENSIONS

VARIABLES
  state,          \* tu->state
  peer,           \* tu->peer (NULL or a TU)
  references,     \* tu->references
  ext,            \* tu->ext (-1 until set)
  tu_mutex,       \* value of the semaphore tu->tu_mutex
  freed,          \* the TU's storage was passed to free()
  pbx_entries,    \* pbx->pbx_entries[ext]
  num_entries,    \* pbx->num_entries
  pbx_mutex,      \* value of the semaphore pbx->pbx_mutex
  entries_mutex,  \* value of the semaphore pbx->entries_mutex
  pbx_freed,      \* pbx_shutdown destroyed the semaphores and freed the table
  client_status,  \* the flag the service loops test, cleared by SIGPIPE
  sock,           \* the connection of each client: open, closed, shutdown
  sent,           \* the last line each client received
  pc,             \* where each service thread is
  cmd,            \* the command a service thread is carrying out
  dial_ext,       \* pbx_dial's argument ext
  recipient,      \* pbx_dial's local recipient / tu_dial's target
  sd_pc,          \* where the main thread is (accepting, or in pbx_shutdown)
  sd_i,           \* pbx_shutdown's loop index i
  nevents,        \* inputs so far: commands read, connections closed, SIGHUP
  ndrops,         \* of these, connections closed by clients and SIGHUP
  transcript,     \* the lines the clients received, in order, while recorded
  script          \* a scripted run: its commands, the next one, and how many
                  \* lines had been received when the last one was read

tuVars == <<state, peer, references, ext, tu_mutex, freed>>
pbxVars == <<pbx_entries, num_entries, pbx_mutex, entries_mutex, pbx_freed>>
sessVars == <<pc, cmd, dial_ext, recipient>>
sdVars == <<sd_pc, sd_i>>
vars ==
  <<state, peer, references, ext, tu_mutex, freed, pbx_entries, num_entries,
    pbx_mutex, entries_mutex, pbx_freed, client_status, sock, sent, pc, cmd,
    dial_ext, recipient, sd_pc, sd_i, nevents, ndrops, transcript, script>>

\* ------------------------------------------------------------ send_to_client
\* send_to_client with the extension of the receiver itself in the
\* CONNECTED line.
Line_OwnExt(t, st, msg, pr, ex) ==
  IF st = TU_CONNECTED
  THEN IF msg = "" THEN <<"CONNECTED", ex[t]>> ELSE <<msg, -1>>
  ELSE IF st = TU_ON_HOOK THEN <<"ON HOOK", ex[t]>>
  ELSE IF st = TU_RINGING THEN <<"RINGING", -1>>
  ELSE IF st = TU_DIAL_TONE THEN <<"DIAL TONE", -1>>
  ELSE IF st = TU_RING_BACK THEN <<"RING BACK", -1>>
  ELSE IF st = TU_BUSY_SIGNAL THEN <<"BUSY SIGNAL", -1>>
  ELSE <<"ERROR", -1>>

\* send_to_client that formats the state line whether or not there is a
\* message.
Line_StateOnly(t, st, msg, pr, ex) ==
  IF st = TU_CONNECTED THEN <<"CONNECTED", ex[pr]>>
  ELSE IF st = TU_ON_HOOK THEN <<"ON HOOK", ex[t]>>
  ELSE IF st = TU_RINGING THEN <<"RINGING", -1>>
  ELSE IF st = TU_DIAL_TONE THEN <<"DIAL TONE", -1>>
  ELSE IF st = TU_RING_BACK THEN <<"RING BACK", -1>>
  ELSE IF st = TU_BUSY_SIGNAL THEN <<"BUSY SIGNAL", -1>>
  ELSE <<"ERROR", -1>>

\* The line send_to_client formats for TU t in state st (msg = "" for NULL).
\* pr is t's peer and ex the function of extensions at the time of the call.
Line(t, st, msg, pr, ex) ==
  IF st = TU_CONNECTED
  THEN IF msg = "" THEN <<"CONNECTED", ex[pr]>> ELSE <<msg, -1>>
  ELSE IF st = TU_ON_HOOK THEN <<"ON HOOK", ex[t]>>
  ELSE IF st = TU_RINGING THEN <<"RINGING", -1>>
  ELSE IF st = TU_DIAL_TONE THEN <<"DIAL TONE", -1>>
  ELSE IF st = TU_RING_BACK THEN <<"RING BACK", -1>>
  ELSE IF st = TU_BUSY_SIGNAL THEN <<"BUSY SIGNAL", -1>>
  ELSE <<"ERROR", -1>>

\* What the client of t has received last, after write() of line on t's
\* connection: the line arrives only on an open connection.
Deliver(snt, t, line) == IF sock[t] = "open" THEN [snt EXCEPT ![t] = line] ELSE snt

\* The record of the lines received, after the same write(): kept only in
\* the runs that start with the record switched on.
Written(tr, t, line) ==
  IF tr.on /\ sock[t] = "open"
  THEN [tr EXCEPT !.lines = Append(@, <<t, line[1], line[2]>>)]
  ELSE tr

\* No record and no script: the clients send what they like.
Unrecorded == [on |-> FALSE, lines |-> <<>>]

NoScript == [cmds |-> <<>>, next |-> 1, mark |-> 0]

\* The values client_status can have after writes to the connections of the
\* TUs in W: a write on a connection shut down locally raises SIGPIPE, whose
\* handler clears the flag; on a connection the client closed the first write
\* may still succeed.
AfterWrites(W) ==
  IF \E t \in W : sock[t] = "shutdown" THEN {0}
  ELSE IF \E t \in W : sock[t] = "closed" THEN {0, client_status}
  ELSE {client_status}

\* ------------------------------------------------------------------- Init
Init ==
  /\ state = [t \in TUs |-> TU_ON_HOOK]
  /\ peer = [t \in TUs |-> NULL]
  /\ references = [t \in TUs |-> 0]
  /\ ext = [t \in TUs |-> -1]
  /\ tu_mutex = [t \in TUs |-> 1]
  /\ freed = [t \in TUs |-> FALSE]
  /\ pbx_entries = [e \in Exts |-> NULL]
  /\ num_entries = 0
  /\ pbx_mutex = 1
  /\ entries_mutex = 1
  /\ pbx_freed = FALSE
  /\ client_status = 1
  /\ sock = [t \in TUs |-> "open"]
  /\ sent = [t \in TUs |-> <<"", -1>>]
  /\ pc = [t \in TUs |-> "start"]
  /\ cmd = [t \in TUs |-> "none"]
  /\ dial_ext = [t \in TUs |-> -1]
  /\ recipient = [t \in TUs |-> NULL]
  /\ sd_pc = "accept"
  /\ sd_i = 0
  /\ nevents = 0
  /\ ndrops = 0
  /\ transcript = Unrecorded
  /\ script = NoScript

\* ------------------------------------------------------------ tu_ref, tu_unref
\* tu_ref that leaves the count as it was.
tu_ref_None(refs, t) == refs

tu_ref(refs, t) == [refs EXCEPT ![t] = @ + 1]

tu_unref(refs, t) == [refs EXCEPT ![t] = @ - 1]

\* tu_unref frees the TU when the count it has just written is 0.
FreedBy(refs, t) == refs[t] = 0

\* ------------------------------------------------------- pbx_client_service
\* Where a thread is once the function it called has returned.  After the
\* hangup made on EOF the loop is left (break) for pbx_unregister.  Otherwise
\* the thread tests while(client_status) and blocks in read(): a thread at
\* "loop" is at the test or in read().  The test directly follows the return
\* and the flag is never set again, so a thread that returns with the flag
\* cleared leaves the loop.
AfterReturn(s) ==
  IF cmd[s] = "eof" \/ client_status' = 0 THEN "unreg" ELSE "loop"

\* A TU or PBX function returns to the service loop.
Return(s) ==
  /\ pc' = [pc EXCEPT ![s] = AfterReturn(s)]
  /\ cmd' = [cmd EXCEPT ![s] = "none"]
  /\ dial_ext' = [dial_ext EXCEPT ![s] = -1]
  /\ recipient' = [recipient EXCEPT ![s] = NULL]

Goto(s, loc) ==
  /\ pc' = [pc EXCEPT ![s] = loc]
  /\ UNCHANGED <<cmd, dial_ext, recipient>>

Running == sd_pc # "exited"

\* pbx_register stores the TU and leaves the count as it was.
Counted_Not(n) == n

\* pbx->num_entries += 1
Counted(n) == n + 1

\* pbx_register on a new TU, as the service thread calls it.  The three
\* semaphores it waits for (pbx_mutex, entries_mutex, the new TU's own in
\* tu_set_extension) are taken in one step: entries_mutex is free whenever
\* pbx_mutex is (RegistryLocksNest) and no other thread knows the new TU.
\* An extension outside the table is refused before any semaphore is taken,
\* an occupied slot with both PBX semaphores posted again; the thread then
\* closes the connection and ends.  Otherwise the TU is stored, its
\* extension set and its client told, and the count and the registry's
\* reference are added.
pbx_register(s, e) ==
  /\ Running
  /\ pc[s] = "start"
  /\ IF e < 0 \/ e > PBX_MAX_EXTENSIONS - 1
     THEN /\ Goto(s, "done")
          /\ sock' = [sock EXCEPT ![s] = "fdclosed"]
          /\ UNCHANGED <<tuVars, pbx_entries, num_entries, client_status, sent, transcript, script>>
     ELSE /\ pbx_mutex > 0
          /\ entries_mutex > 0
          /\ tu_mutex[s] > 0
          /\ IF pbx_entries[e] # NULL
             THEN /\ Goto(s, "done")
                  /\ sock' = [sock EXCEPT ![s] = "fdclosed"]
                  /\ UNCHANGED <<tuVars, pbx_entries, num_entries,
                                 client_status, sent, transcript, script>>
             ELSE /\ pbx_entries' = [pbx_entries EXCEPT ![e] = s]
                  /\ ext' = [ext EXCEPT ![s] = e]
                  /\ state' = [state EXCEPT ![s] = TU_ON_HOOK]
                  /\ sent' = Deliver(sent, s, Line(s, TU_ON_HOOK, "", peer[s], ext'))
                  /\ transcript' = Written(transcript, s, Line(s, TU_ON_HOOK, "", peer[s], ext'))
                  /\ UNCHANGED script
                  /\ client_status' \in AfterWrites({s})
                  /\ num_entries' = Counted(num_entries)
                  /\ references' = tu_ref(references, s)
                  /\ pc' = [pc EXCEPT ![s] = AfterReturn(s)]
                  /\ UNCHANGED <<cmd, dial_ext, recipient, peer, tu_mutex,
                                 freed, sock>>
  /\ UNCHANGED <<pbx_mutex, entries_mutex, pbx_freed, sdVars, nevents, ndrops>>

\* pbx_register(pbx, teleunit, connfd): the thread registers its TU at the
\* number of its connection.
Register(s) == pbx_register(s, Fd(s))

\* while(client_status) after the flag was cleared: a thread that came back
\* to the loop while the flag was still set may not have tested it yet.
LoopExit(s) ==
  /\ Running
  /\ pc[s] = "loop"
  /\ client_status = 0
  /\ Goto(s, "unreg")
  /\ UNCHANGED <<tuVars, pbxVars, client_status, sock, sent, transcript, script, sdVars, nevents, ndrops>>

\* read() returns a complete command line; the command is parsed and the TU
\* or PBX function is entered, up to its first sem_wait.  A dial beyond the
\* table returns from pbx_dial at once.
ReadCommand(s) ==
  /\ Running
  /\ pc[s] = "loop"
  /\ sock[s] = "open"
  /\ nevents < MaxEvents
  /\ nevents' = nevents + 1
  /\ \/ /\ \E c \in {"pickup", "hangup", "chat"} :
             /\ cmd' = [cmd EXCEPT ![s] = c]
             /\ pc' = [pc EXCEPT ![s] = c]
        /\ UNCHANGED <<dial_ext, recipient>>
     \/ \E e \in DialArgs :
          IF e > PBX_MAX_EXTENSIONS - 1
          THEN Goto(s, IF client_status = 0 THEN "unreg" ELSE "loop")
          ELSE /\ cmd' = [cmd EXCEPT ![s] = "dial"]
               /\ pc' = [pc EXCEPT ![s] = "dial"]
               /\ dial_ext' = [dial_ext EXCEPT ![s] = e]
               /\ UNCHANGED recipient
  /\ UNCHANGED <<tuVars, pbxVars, client_status, sock, sent, transcript, script, sdVars, ndrops>>

\* read() returns 0 or an error: the loop calls tu_hangup and breaks.
ReadEOF(s) ==
  /\ Running
  /\ pc[s] = "loop"
  /\ sock[s] # "open"
  /\ cmd' = [cmd EXCEPT ![s] = "eof"]
  /\ pc' = [pc EXCEPT ![s] = "hangup"]
  /\ UNCHANGED <<dial_ext, recipient, tuVars, pbxVars, client_status, sock,
                 sent, transcript, script, sdVars, nevents, ndrops>>

\* The client of a registered TU closes its end of the connection.
ClientClose(s) ==
  /\ Running
  /\ pc[s] \notin {"start", "done"}
  /\ sock[s] = "open"
  /\ nevents < MaxEvents
  /\ ndrops < MaxDrops
  /\ nevents' = nevents + 1
  /\ ndrops' = ndrops + 1
  /\ sock' = [sock EXCEPT ![s] = "closed"]
  /\ UNCHANGED <<tuVars, pbxVars, client_status, sent, transcript, script, sessVars, sdVars>>

\* ---------------------------------------------------------------- tu_pickup
\* A pickup gives a dial tone whatever the TU was doing.
PickedUp_Always(st) == TU_DIAL_TONE

\* The state of a TU that is not ringing after tu_pickup: TU_ON_HOOK becomes
\* TU_DIAL_TONE, any other state stays.
PickedUp(st) == IF st = TU_ON_HOOK THEN TU_DIAL_TONE ELSE st

\* From sem_wait(&tu->tu_mutex): the two branches that need no peer are done
\* whole; in TU_RINGING the thread goes on to wait for the peer's semaphore.
PickupLock(s) ==
  /\ Running
  /\ pc[s] = "pickup"
  /\ tu_mutex[s] > 0
  /\ IF state[s] = TU_RINGING
     THEN /\ tu_mutex' = [tu_mutex EXCEPT ![s] = @ - 1]
          /\ Goto(s, "pickup_peer")
          /\ UNCHANGED <<state, sent, transcript, script, client_status>>
     ELSE /\ state' = [state EXCEPT ![s] = PickedUp(@)]
          /\ sent' = Deliver(sent, s, Line(s, state'[s], "", peer[s], ext))
          /\ transcript' = Written(transcript, s, Line(s, state'[s], "", peer[s], ext))
          /\ UNCHANGED script
          /\ client_status' \in AfterWrites({s})
          /\ Return(s)
          /\ UNCHANGED tu_mutex
  /\ UNCHANGED <<peer, references, ext, freed, pbxVars, sock, sdVars, nevents, ndrops>>

\* From sem_wait(&tu->peer->tu_mutex): both TUs become connected, both
\* clients are told, and the TU's own semaphore is posted.
PickupConnect(s) ==
  /\ Running
  /\ pc[s] = "pickup_peer"
  /\ peer[s] # NULL
  /\ tu_mutex[peer[s]] > 0
  /\ LET p == peer[s] IN
       /\ state' = [state EXCEPT ![s] = TU_CONNECTED, ![p] = TU_CONNECTED]
       /\ sent' = Deliver(Deliver(sent, s, Line(s, TU_CONNECTED, "", p, ext)),
                          p, Line(p, TU_CONNECTED, "", peer[p], ext))
       /\ transcript' = Written(Written(transcript, s, Line(s, TU_CONNECTED, "", p, ext)),
                                p, Line(p, TU_CONNECTED, "", peer[p], ext))
       /\ UNCHANGED script
       /\ client_status' \in AfterWrites({s, p})
       /\ tu_mutex' = [tu_mutex EXCEPT ![s] = @ + 1, ![p] = @ - 1]
  /\ Goto(s, "pickup_post")
  /\ UNCHANGED <<peer, references, ext, freed, pbxVars, sock, sdVars, nevents, ndrops>>

\* sem_post(&tu->peer->tu_mutex), with tu->peer read again.
PickupPost(s) ==
  /\ Running
  /\ pc[s] = "pickup_post"
  /\ peer[s] # NULL
  /\ tu_mutex' = [tu_mutex EXCEPT ![peer[s]] = @ + 1]
  /\ UNCHANGED client_status
  /\ Return(s)
  /\ UNCHANGED <<state, peer, references, ext, freed, pbxVars, sock, sent, transcript, script,
                 sdVars, nevents, ndrops>>

\* ---------------------------------------------------------------- tu_hangup
\* From sem_wait(&tu->tu_mutex): with a call in progress the thread goes on
\* to wait for the peer's semaphore; otherwise the TU is put on hook and the
\* client told.
\* tu_hangup that leaves a TU in TU_ERROR as it is.
HungUp_NotFromError(st) ==
  IF st \in {TU_DIAL_TONE, TU_BUSY_SIGNAL} THEN TU_ON_HOOK ELSE st

\* The state of a TU with no call after tu_hangup: TU_DIAL_TONE,
\* TU_BUSY_SIGNAL and TU_ERROR become TU_ON_HOOK, TU_ON_HOOK stays.
HungUp(st) ==
  IF st \in {TU_DIAL_TONE, TU_BUSY_SIGNAL, TU_ERROR} THEN TU_ON_HOOK ELSE st

HangupLock(s) ==
  /\ Running
  /\ pc[s] = "hangup"
  /\ tu_mutex[s] > 0
  /\ IF state[s] \in {TU_CONNECTED, TU_RINGING, TU_RING_BACK}
     THEN /\ tu_mutex' = [tu_mutex EXCEPT ![s] = @ - 1]
          /\ Goto(s, IF state[s] = TU_RING_BACK THEN "hangup_rb" ELSE "hangup_peer")
          /\ UNCHANGED <<state, sent, transcript, script, client_status>>
     ELSE /\ state' = [state EXCEPT ![s] = HungUp(@)]
          /\ sent' = Deliver(sent, s, Line(s, state'[s], "", peer[s], ext))
          /\ transcript' = Written(transcript, s, Line(s, state'[s], "", peer[s], ext))
          /\ UNCHANGED script
          /\ client_status' \in AfterWrites({s})
          /\ Return(s)
          /\ UNCHANGED tu_mutex
  /\ UNCHANGED <<peer, references, ext, freed, pbxVars, sock, sdVars, nevents, ndrops>>

\* The peer of a TU that hangs up in TU_RING_BACK is put on hook.
PeerHungUp_OnHook == TU_ON_HOOK

\* The peer of a TU that hangs up from a call hears a busy signal.
PeerHungUp_BusySignal == TU_BUSY_SIGNAL

\* tu->peer->state = TU_DIAL_TONE: what the TU_CONNECTED / TU_RINGING branch
\* makes of the peer.
PeerHungUp == TU_DIAL_TONE

\* The TU_CONNECTED / TU_RINGING branch from sem_wait(&tu->peer->tu_mutex):
\* the TU goes on hook, the peer to dial tone, both references are dropped,
\* both clients told, both peer fields cleared, both semaphores posted.
HangupPeer(s) ==
  /\ Running
  /\ pc[s] = "hangup_peer"
  /\ peer[s] # NULL
  /\ tu_mutex[peer[s]] > 0
  /\ LET p == peer[s]
         st1 == [state EXCEPT ![s] = TU_ON_HOOK]
         st2 == [st1 EXCEPT ![p] = PeerHungUp]
         r1 == tu_unref(references, s)
         r2 == tu_unref(r1, p)
     IN
       /\ state' = st2
       /\ references' = r2
       /\ freed' = [t \in TUs |->
                      \/ freed[t]
                      \/ (t = s /\ FreedBy(r1, s))
                      \/ (t = p /\ FreedBy(r2, p))]
       /\ sent' = Deliver(Deliver(sent, s, Line(s, st2[s], "", p, ext)),
                          p, Line(p, st2[p], "", peer[p], ext))
       /\ transcript' = Written(Written(transcript, s, Line(s, st2[s], "", p, ext)),
                                p, Line(p, st2[p], "", peer[p], ext))
       /\ UNCHANGED script
       /\ client_status' \in AfterWrites({s, p})
       /\ peer' = [[peer EXCEPT ![p] = NULL] EXCEPT ![s] = NULL]
       /\ tu_mutex' = [tu_mutex EXCEPT ![s] = @ + 1]
  /\ Return(s)
  /\ UNCHANGED <<ext, pbxVars, sock, sdVars, nevents, ndrops>>

\* The peer of a TU that hangs up in TU_RING_BACK gets a dial tone, as the
\* peer of one that hangs up from a call does.
PeerCancelled_DialTone == TU_DIAL_TONE

\* tu->peer->state = TU_ON_HOOK: what the TU_RING_BACK branch makes of the
\* peer.
PeerCancelled == TU_ON_HOOK

\* The TU_RING_BACK branch from sem_wait(&tu->peer->tu_mutex): both TUs go on
\* hook and both clients are told; the TU's own semaphore is posted.
HangupRingBack(s) ==
  /\ Running
  /\ pc[s] = "hangup_rb"
  /\ peer[s] # NULL
  /\ tu_mutex[peer[s]] > 0
  /\ LET p == peer[s]
         st2 == [state EXCEPT ![s] = TU_ON_HOOK, ![p] = PeerCancelled]
     IN
       /\ state' = st2
       /\ sent' = Deliver(Deliver(sent, s, Line(s, st2[s], "", p, ext)),
                          p, Line(p, st2[p], "", peer[p], ext))
       /\ transcript' = Written(Written(transcript, s, Line(s, st2[s], "", p, ext)),
                                p, Line(p, st2[p], "", peer[p], ext))
       /\ UNCHANGED script
       /\ client_status' \in AfterWrites({s, p})
       /\ tu_mutex' = [tu_mutex EXCEPT ![s] = @ + 1, ![p] = @ - 1]
  /\ Goto(s, "hangup_rb_post")
  /\ UNCHANGED <<peer, references, ext, freed, pbxVars, sock, sdVars, nevents, ndrops>>

\* sem_post(&tu->peer->tu_mutex) of the TU_RING_BACK branch, with tu->peer
\* read again after the TU's own semaphore was posted.
HangupRingBackPost(s) ==
  /\ Running
  /\ pc[s] = "hangup_rb_post"
  /\ peer[s] # NULL
  /\ tu_mutex' = [tu_mutex EXCEPT ![peer[s]] = @ + 1]
  /\ UNCHANGED client_status
  /\ Return(s)
  /\ UNCHANGED <<state, peer, references, ext, freed, pbxVars, sock, sent, transcript, script,
                 sdVars, nevents, ndrops>>

\* ------------------------------------------------------- pbx_dial, tu_dial
\* pbx_dial from sem_wait(&pbx->pbx_mutex): the recipient is looked up.
DialLookup(s) ==
  /\ Running
  /\ pc[s] = "dial"
  /\ pbx_mutex > 0
  /\ pbx_mutex' = pbx_mutex - 1
  /\ recipient' = [recipient EXCEPT ![s] =
                     IF dial_ext[s] # -1 /\ pbx_entries[dial_ext[s]] # NULL
                     THEN pbx_entries[dial_ext[s]] ELSE NULL]
  /\ pc' = [pc EXCEPT ![s] = "dial_tu"]
  /\ UNCHANGED <<cmd, dial_ext, tuVars, pbx_entries, num_entries, entries_mutex,
                 pbx_freed, client_status, sock, sent, transcript, script, sdVars, nevents, ndrops>>

\* tu_dial from its first sem_wait(&tu->tu_mutex): the branches decided on
\* the caller alone end the call of pbx_dial; otherwise the semaphore is
\* posted and both are taken again in address order.
DialSelf(s) ==
  /\ Running
  /\ pc[s] = "dial_tu"
  /\ tu_mutex[s] > 0
  /\ IF state[s] = TU_DIAL_TONE /\ recipient[s] # NULL /\ recipient[s] # s
     THEN /\ Goto(s, "dial_lock1")
          /\ UNCHANGED <<state, sent, transcript, script, client_status, pbx_mutex>>
     ELSE /\ state' = [state EXCEPT ![s] =
                         IF @ # TU_DIAL_TONE THEN @
                         ELSE IF recipient[s] = NULL THEN TU_ERROR
                         ELSE TU_BUSY_SIGNAL]
          /\ sent' = Deliver(sent, s, Line(s, state'[s], "", peer[s], ext))
          /\ transcript' = Written(transcript, s, Line(s, state'[s], "", peer[s], ext))
          /\ UNCHANGED script
          /\ client_status' \in AfterWrites({s})
          /\ pbx_mutex' = pbx_mutex + 1
          /\ Return(s)
  /\ UNCHANGED <<peer, references, ext, tu_mutex, freed, pbx_entries,
                 num_entries, entries_mutex, pbx_freed, sock, sdVars, nevents, ndrops>>

\* The TU whose semaphore tu_dial takes first and second: tu < target.
DialFirst(tu, target) == IF tu < target THEN tu ELSE target

DialSecond(tu, target) == IF tu < target THEN target ELSE tu

DialLockFirst(s) ==
  /\ Running
  /\ pc[s] = "dial_lock1"
  /\ tu_mutex[DialFirst(s, recipient[s])] > 0
  /\ tu_mutex' = [tu_mutex EXCEPT ![DialFirst(s, recipient[s])] = @ - 1]
  /\ Goto(s, "dial_lock2")
  /\ UNCHANGED <<state, peer, references, ext, freed, pbxVars, client_status,
                 sock, sent, transcript, script, sdVars, nevents, ndrops>>

\* tu_dial's test as it would be with the target's state left out.
DialBusy_OnlyPeer(tu, target) == peer[tu] # NULL

\* tu_dial's test with both semaphores held.
DialBusy(tu, target) == peer[tu] # NULL \/ state[target] # TU_ON_HOOK

\* tu_dial from the second sem_wait: busy signal, or the call is set up;
\* both TU semaphores and pbx_mutex are posted.
DialCommit(s) ==
  /\ Running
  /\ pc[s] = "dial_lock2"
  /\ tu_mutex[DialSecond(s, recipient[s])] > 0
  /\ LET target == recipient[s] IN
       IF DialBusy(s, target)
       THEN /\ state' = [state EXCEPT ![s] = TU_BUSY_SIGNAL]
            /\ sent' = Deliver(sent, s, Line(s, TU_BUSY_SIGNAL, "", peer[s], ext))
            /\ transcript' = Written(transcript, s, Line(s, TU_BUSY_SIGNAL, "", peer[s], ext))
            /\ UNCHANGED script
            /\ client_status' \in AfterWrites({s})
            /\ UNCHANGED <<peer, references>>
       ELSE /\ peer' = [peer EXCEPT ![s] = target, ![target] = s]
            /\ state' = [state EXCEPT ![s] = TU_RING_BACK, ![target] = TU_RINGING]
            /\ references' = tu_ref(tu_ref(references, s), target)
            /\ sent' = Deliver(Deliver(sent, s, Line(s, TU_RING_BACK, "", target, ext)),
                               target, Line(target, TU_RINGING, "", s, ext))
            /\ transcript' = Written(Written(transcript, s, Line(s, TU_RING_BACK, "", target, ext)),
                                     target, Line(target, TU_RINGING, "", s, ext))
            /\ UNCHANGED script
            /\ client_status' \in AfterWrites({s, target})
  /\ tu_mutex' = [tu_mutex EXCEPT ![DialFirst(s, recipient[s])] = @ + 1]
  /\ pbx_mutex' = pbx_mutex + 1
  /\ Return(s)
  /\ UNCHANGED <<ext, freed, pbx_entries, num_entries, entries_mutex, pbx_freed,
                 sock, sdVars, nevents, ndrops>>

\* ------------------------------------------------------------------ tu_chat
\* From sem_wait(&tu->tu_mutex): a TU that is not connected returns -1 with
\* the semaphore still taken; a connected one goes on to the peer's.
ChatLock(s) ==
  /\ Running
  /\ pc[s] = "chat"
  /\ tu_mutex[s] > 0
  /\ tu_mutex' = [tu_mutex EXCEPT ![s] = @ - 1]
  /\ UNCHANGED client_status
  /\ IF state[s] # TU_CONNECTED THEN Return(s) ELSE Goto(s, "chat_peer")
  /\ UNCHANGED <<state, peer, references, ext, freed, pbxVars, sock, sent, transcript, script,
                 sdVars, nevents, ndrops>>

\* From sem_wait(&tu->peer->tu_mutex): the state line to the sender, the
\* message to the peer, the sender's semaphore posted.
ChatSend(s) ==
  /\ Running
  /\ pc[s] = "chat_peer"
  /\ peer[s] # NULL
  /\ tu_mutex[peer[s]] > 0
  /\ LET p == peer[s] IN
       /\ sent' = Deliver(Deliver(sent, s, Line(s, state[s], "", p, ext)),
                          p, Line(p, state[p], "CHAT", peer[p], ext))
       /\ transcript' = Written(Written(transcript, s, Line(s, state[s], "", p, ext)),
                                p, Line(p, state[p], "CHAT", peer[p], ext))
       /\ UNCHANGED script
       /\ client_status' \in AfterWrites({s, p})
       /\ tu_mutex' = [tu_mutex EXCEPT ![s] = @ + 1, ![p] = @ - 1]
  /\ Goto(s, "chat_post")
  /\ UNCHANGED <<state, peer, references, ext, freed, pbxVars, sock, sdVars,
                 nevents, ndrops>>

\* sem_post(&tu->peer->tu_mutex), with tu->peer read again.
ChatPost(s) ==
  /\ Running
  /\ pc[s] = "chat_post"
  /\ peer[s] # NULL
  /\ tu_mutex' = [tu_mutex EXCEPT ![peer[s]] = @ + 1]
  /\ UNCHANGED client_status
  /\ Return(s)
  /\ UNCHANGED <<state, peer, references, ext, freed, pbxVars, sock, sent, transcript, script,
                 sdVars, nevents, ndrops>>

\* ----------------------------------------------------------- pbx_unregister
\* pbx_unregister's two waits, for pbx_mutex and entries_mutex, taken in
\* one step (RegistryLocksNest).
UnregisterLock(s) ==
  /\ Running
  /\ pc[s] = "unreg"
  /\ pbx_mutex > 0
  /\ entries_mutex > 0
  /\ pbx_mutex' = pbx_mutex - 1
  /\ entries_mutex' = entries_mutex - 1
  /\ Goto(s, "unreg_t")
  /\ UNCHANGED <<tuVars, pbx_entries, num_entries, pbx_freed, client_status,
                 sock, sent, transcript, script, sdVars, nevents, ndrops>>

\* From tu_extension's sem_wait(&tu->tu_mutex) to the end of the thread: the
\* slot is cleared, the count and the registry's reference dropped, both
\* PBX semaphores posted, the connection closed.
UnregisterRemove(s) ==
  /\ Running
  /\ pc[s] = "unreg_t"
  /\ tu_mutex[s] > 0
  /\ IF ext[s] = -1 \/ pbx_entries[ext[s]] = NULL
     THEN UNCHANGED <<pbx_entries, num_entries, references, freed>>
     ELSE /\ pbx_entries' = [pbx_entries EXCEPT ![ext[s]] = NULL]
          /\ num_entries' = num_entries - 1
          /\ references' = tu_unref(references, s)
          /\ freed' = [freed EXCEPT ![s] = @ \/ FreedBy(references', s)]
  /\ entries_mutex' = entries_mutex + 1
  /\ pbx_mutex' = pbx_mutex + 1
  /\ sock' = [sock EXCEPT ![s] = "fdclosed"]
  /\ Goto(s, "done")
  /\ UNCHANGED <<state, peer, ext, tu_mutex, pbx_freed, client_status, sent, transcript, script,
                 sdVars, nevents, ndrops>>

\* ------------------------------------------------------------- pbx_shutdown
\* SIGHUP: the accept loop ends and terminate() enters pbx_shutdown.
Terminate ==
  /\ sd_pc = "accept"
  /\ nevents < MaxEvents
  /\ ndrops < MaxDrops
  /\ nevents' = nevents + 1
  /\ ndrops' = ndrops + 1
  /\ sd_pc' = "sweep_lock"
  /\ UNCHANGED <<sd_i, tuVars, pbxVars, client_status, sock, sent, transcript, script, sessVars>>

ShutdownLock ==
  /\ sd_pc = "sweep_lock"
  /\ pbx_mutex > 0
  /\ pbx_mutex' = pbx_mutex - 1
  /\ sd_pc' = "sweep"
  /\ sd_i' = 0
  /\ UNCHANGED <<tuVars, pbx_entries, num_entries, entries_mutex, pbx_freed,
                 client_status, sock, sent, transcript, script, sessVars, nevents, ndrops>>

\* The occupied slots the loop has still to visit.
SweepLeft == {e \in Exts : e >= sd_i /\ pbx_entries[e] # NULL}

SweepNext == CHOOSE e \in SweepLeft : \A f \in SweepLeft : e <= f

\* The loop over the table up to and including the next occupied slot:
\* tu_fileno takes that TU's semaphore and the connection is shut down.
\* Past the last occupied slot pbx_mutex is posted.
ShutdownSweep ==
  /\ sd_pc = "sweep"
  /\ IF SweepLeft = {}
     THEN /\ pbx_mutex' = pbx_mutex + 1
          /\ sd_pc' = "poll"
          /\ sd_i' = PBX_MAX_EXTENSIONS
          /\ UNCHANGED sock
     ELSE /\ tu_mutex[pbx_entries[SweepNext]] > 0
          /\ sock' = [sock EXCEPT ![pbx_entries[SweepNext]] = "shutdown"]
          /\ sd_i' = SweepNext + 1
          /\ UNCHANGED <<pbx_mutex, sd_pc>>
  /\ UNCHANGED <<tuVars, pbx_entries, num_entries, entries_mutex, pbx_freed,
                 client_status, sent, transcript, script, sessVars, nevents, ndrops>>

\* One turn of the loop that waits for num_entries == 0.
ShutdownPoll ==
  /\ sd_pc = "poll"
  /\ entries_mutex > 0
  /\ sd_pc' = IF num_entries = 0 THEN "destroy" ELSE "poll"
  /\ UNCHANGED <<sd_i, tuVars, pbxVars, client_status, sock, sent, transcript, script, sessVars, nevents, ndrops>>

\* sem_destroy on both semaphores, free of the table and of the PBX.
ShutdownDestroy ==
  /\ sd_pc = "destroy"
  /\ pbx_freed' = TRUE
  /\ sd_pc' = "returned"
  /\ UNCHANGED <<sd_i, tuVars, pbx_entries, num_entries, pbx_mutex, entries_mutex,
                 client_status, sock, sent, transcript, script, sessVars, nevents, ndrops>>

\* terminate() calls exit(): every thread ends.
Exit ==
  /\ sd_pc = "returned"
  /\ sd_pc' = "exited"
  /\ UNCHANGED <<sd_i, tuVars, pbxVars, client_status, sock, sent, transcript, script, sessVars, nevents, ndrops>>

\* ------------------------------------------------------------- specification
Session(s) ==
  \/ Register(s)
  \/ LoopExit(s) \/ ReadCommand(s) \/ ReadEOF(s)
  \/ PickupLock(s) \/ PickupConnect(s) \/ PickupPost(s)
  \/ HangupLock(s) \/ HangupPeer(s) \/ HangupRingBack(s) \/ HangupRingBackPost(s)
  \/ DialLookup(s) \/ DialSelf(s) \/ DialLockFirst(s) \/ DialCommit(s)
  \/ ChatLock(s) \/ ChatSend(s) \/ ChatPost(s)
  \/ UnregisterLock(s) \/ UnregisterRemove(s)

Shutdown ==
  \/ Terminate \/ ShutdownLock \/ ShutdownSweep \/ ShutdownPoll
  \/ ShutdownDestroy \/ Exit

Next ==
  \/ \E s \in TUs : Session(s)
  \/ \E s \in TUs : ClientClose(s)
  \/ Shutdown

Spec == Init /\ [][Next]_vars

\* ------------------------------------------------------------ model sanity
\* entries_mutex is only ever held by a thread that holds pbx_mutex, or
\* within pbx_shutdown's polling step: whenever pbx_mutex is free so is
\* entries_mutex, which is what lets Register and UnregisterLock take both
\* in one step.
RegistryLocksNest == pbx_mutex > 0 => entries_mutex > 0

\* A thread about to use tu->peer has a peer to use.
PeerDereferenced ==
  \A s \in TUs :
    pc[s] \in {"pickup_peer", "pickup_post", "hangup_peer", "hangup_rb",
               "hangup_rb_post", "chat_peer", "chat_post"} => peer[s] # NULL

\* ------------------------------------------------------------------ claims
\* No TU operation is in progress: every service thread is before
\* registration, idle in its loop, or past it, and no TU semaphore is taken.
NoTUOperation ==
  /\ \A s \in TUs : pc[s] \in {"start", "loop", "unreg", "done"}
  /\ \A t \in TUs : tu_mutex[t] >= 1

Registered(t) == \E e \in Exts : pbx_entries[e] = t

InCall(st) == st \in {TU_RINGING, TU_RING_BACK, TU_CONNECTED}

\* C1: peer symmetry.  Whenever no TU operation is in progress, A.peer = B
\* implies B.peer = A for all TUs A and B.
C1_PeerSymmetry ==
  NoTUOperation =>
    \A a \in TUs : \A b \in TUs : peer[a] = b => peer[b] = a

\* C2: state-peer consistency.  Whenever no TU operation is in progress, a
\* TU has a peer exactly when it is RINGING, RING_BACK or CONNECTED.
C2_StatePeerConsistency ==
  NoTUOperation => \A t \in TUs : (peer[t] # NULL) <=> InCall(state[t])

\* C3: call pairing.  Whenever no TU operation is in progress and A.peer = B,
\* the states of A and B are RINGING and RING_BACK, or both CONNECTED.
C3_CallPairing ==
  NoTUOperation =>
    \A a \in TUs : \A b \in TUs :
      peer[a] = b =>
        \/ {state[a], state[b]} = {TU_RINGING, TU_RING_BACK}
        \/ (state[a] = TU_CONNECTED /\ state[b] = TU_CONNECTED)

\* C4: reference-count accounting.  Whenever no TU operation is in progress,
\* every TU's count is >= 0 and is 1 for a registry slot plus 1 for a peer.
C4_RefcountAccounting ==
  NoTUOperation =>
    \A t \in TUs :
      /\ references[t] >= 0
      /\ references[t] = (IF Registered(t) THEN 1 ELSE 0)
                         + (IF peer[t] # NULL THEN 1 ELSE 0)

\* -------------------------------------------------- crossed dials (C5)
\* The moment of the crossed dials: every TU is registered, TU 1 and TU 2
\* are in TU_DIAL_TONE, and each one's thread has read "dial <the other>"
\* and is about to enter pbx_dial.  The other TUs are on hook, or have dial
\* tone and are idle, or have dial tone and are themselves about to dial
\* some extension below PBX_MAX_EXTENSIONS; one of them may be the TU that
\* TU 1 called and hung up on during ring back before picking up again
\* (tu_hangup's TU_RING_BACK branch leaves that link and its two references
\* in place).
Others == TUs \ {1, 2}

CrossProfiles == {"onhook", "dialtone", "dial"}

CrossInit ==
  \E prof \in [Others -> CrossProfiles] :
   \E arg \in [Others -> {e \in DialArgs : e < PBX_MAX_EXTENSIONS}] :
    \E old \in {NULL} \cup {t \in Others : prof[t] = "onhook"} :
      /\ state = [t \in TUs |->
                    IF t \in {1, 2} \/ prof[t] # "onhook"
                    THEN TU_DIAL_TONE ELSE TU_ON_HOOK]
      /\ peer = [t \in TUs |->
                   IF old = NULL THEN NULL
                   ELSE IF t = 1 THEN old
                   ELSE IF t = old THEN 1 ELSE NULL]
      /\ references = [t \in TUs |->
                         IF old # NULL /\ t \in {1, old} THEN 2 ELSE 1]
      /\ ext = [t \in TUs |-> Fd(t)]
      /\ tu_mutex = [t \in TUs |-> 1]
      /\ freed = [t \in TUs |-> FALSE]
      /\ pbx_entries = [e \in Exts |-> IF e + 1 \in TUs THEN e + 1 ELSE NULL]
      /\ num_entries = NumTU
      /\ pbx_mutex = 1
      /\ entries_mutex = 1
      /\ pbx_freed = FALSE
      /\ client_status = 1
      /\ sock = [t \in TUs |-> "open"]
      /\ sent = [t \in TUs |-> Line(t, state[t], "", NULL, ext)]
      /\ pc = [t \in TUs |->
                 IF t \in {1, 2} \/ prof[t] = "dial"
                 THEN "dial" ELSE "loop"]
      /\ cmd = [t \in TUs |-> IF pc[t] = "dial" THEN "dial" ELSE "none"]
      /\ dial_ext = [t \in TUs |->
                       IF t = 1 THEN Fd(2)
                       ELSE IF t = 2 THEN Fd(1)
                       ELSE IF prof[t] = "dial" THEN arg[t] ELSE -1]
      /\ recipient = [t \in TUs |-> NULL]
      /\ sd_pc = "accept"
      /\ sd_i = 0
      /\ nevents = 0
      /\ ndrops = 0
      /\ transcript = Unrecorded
      /\ script = NoScript

\* Only the dials run: no further command is read.
CrossNext ==
  \E s \in TUs :
    DialLookup(s) \/ DialSelf(s) \/ DialLockFirst(s) \/ DialCommit(s)

CrossSpec == CrossInit /\ [][CrossNext]_vars

InTuDial(s) == pc[s] \in {"dial_tu", "dial_lock1", "dial_lock2"}

BothDialsReturned == pc[1] = "loop" /\ pc[2] = "loop"

Paired(a, b) ==
  /\ state[a] = TU_RING_BACK
  /\ state[b] = TU_RINGING
  /\ peer[a] = b
  /\ peer[b] = a

\* C5 (as claimed): once both crossed dials have returned, exactly one of
\* them has established the pairing: its caller is RING_BACK, the other TU
\* RINGING, and they are linked.
C5_CrossedDialsOnePairing ==
  BothDialsReturned => (Paired(1, 2) \/ Paired(2, 1))

\* C5 (amended): the registry semaphore serialises the crossed dials (the
\* two threads are never both inside tu_dial), neither dial puts a peer link
\* between the two TUs or takes either out of DIAL_TONE / BUSY_SIGNAL, and
\* once both have returned both callers are in BUSY_SIGNAL and both clients
\* have been told so.
C5_CrossedDialsBothBusy ==
  /\ ~(InTuDial(1) /\ InTuDial(2))
  /\ peer[1] # 2 /\ peer[2] # 1
  /\ \A t \in {1, 2} :
       /\ state[t] \in {TU_DIAL_TONE, TU_BUSY_SIGNAL}
       /\ pc[t] = "loop" => state[t] = TU_BUSY_SIGNAL
  /\ BothDialsReturned =>
       /\ sent[1] = <<"BUSY SIGNAL", -1>>
       /\ sent[2] = <<"BUSY SIGNAL", -1>>
       /\ references[2] = 1

\* C5 witness: both crossed dials have returned, with both callers busy.
C5_Witness ==
  /\ BothDialsReturned
  /\ state[1] = TU_BUSY_SIGNAL
  /\ state[2] = TU_BUSY_SIGNAL
  /\ pbx_mutex = 1

\* ------------------------------------------------------- TU semaphores
\* The thread of s has taken its own TU's semaphore and is at the sem_wait
\* for its peer's.
AtPeerWait(s) ==
  pc[s] \in {"pickup_peer", "hangup_peer", "hangup_rb", "chat_peer"}

\* C6: TU lock ordering.  No thread holds the semaphore of the TU with the
\* higher identity while it waits for the taken semaphore of the TU with the
\* lower identity: in pickup, hangup and chat the thread that waits for its
\* peer's semaphore belongs to the lower TU, and in tu_dial the first
\* semaphore is the lower one.
C6_LockOrdering ==
  \A s \in TUs :
    /\ (AtPeerWait(s) /\ tu_mutex[peer[s]] = 0) => s < peer[s]
    /\ pc[s] = "dial_lock2" =>
         DialFirst(s, recipient[s]) < DialSecond(s, recipient[s])

\* C7: lock release on every exit path.  When every thread is outside the
\* TU operations (each one that was called has returned), every TU's
\* semaphore is free.
C7_LockReleased ==
  (\A s \in TUs : pc[s] \in {"start", "loop", "unreg", "done"}) =>
    \A t \in TUs : tu_mutex[t] >= 1

\* C10: successful dial.  A dial that reaches tu_dial's test with both
\* semaphores held, from a caller in DIAL_TONE to a different registered
\* TU that is ON_HOOK with a null peer, leaves the caller in RING_BACK and
\* the target in RINGING, links the two peer fields and adds exactly one
\* reference to each.
C10_SuccessfulDial ==
  [][\A s \in TUs :
       LET target == recipient[s] IN
         ( /\ pc[s] = "dial_lock2"
           /\ pc'[s] # "dial_lock2"
           /\ state[s] = TU_DIAL_TONE
           /\ target # s
           /\ Registered(target)
           /\ state[target] = TU_ON_HOOK
           /\ peer[target] = NULL )
         =>
         ( /\ state'[s] = TU_RING_BACK
           /\ state'[target] = TU_RINGING
           /\ peer'[s] = target
           /\ peer'[target] = s
           /\ references'[s] = references[s] + 1
           /\ references'[target] = references[target] + 1 )]_vars

\* ------------------------------------------------------- fair scheduling
\* The steps a service thread takes by itself once it is scheduled: every
\* step of Session but the arrival of a command, which is the client's.
ThreadStep(s) ==
  \/ Register(s)
  \/ LoopExit(s) \/ ReadEOF(s)
  \/ PickupLock(s) \/ PickupConnect(s) \/ PickupPost(s)
  \/ HangupLock(s) \/ HangupPeer(s) \/ HangupRingBack(s) \/ HangupRingBackPost(s)
  \/ DialLookup(s) \/ DialSelf(s) \/ DialLockFirst(s) \/ DialCommit(s)
  \/ ChatLock(s) \/ ChatSend(s) \/ ChatPost(s)
  \/ UnregisterLock(s) \/ UnregisterRemove(s)

\* The steps of the main thread inside pbx_shutdown and after it.
ShutdownStep ==
  ShutdownLock \/ ShutdownSweep \/ ShutdownPoll \/ ShutdownDestroy \/ Exit

\* Every thread that can take a step is eventually scheduled; clients and
\* the SIGHUP are under no obligation.
FairSpec ==
  /\ Init
  /\ [][Next]_vars
  /\ \A s \in TUs : WF_vars(ThreadStep(s))
  /\ WF_vars(ShutdownStep)

\* The system with a call in progress: TU 1 has picked up and dialled
\* extension 1, TU 2 has picked up the ringing call, and the two are
\* connected; the remaining connections have not been accepted yet.
ConnInit ==
  /\ state = [t \in TUs |-> IF t \in {1, 2} THEN TU_CONNECTED ELSE TU_ON_HOOK]
  /\ peer = [t \in TUs |-> IF t = 1 THEN 2 ELSE IF t = 2 THEN 1 ELSE NULL]
  /\ references = [t \in TUs |-> IF t \in {1, 2} THEN 2 ELSE 0]
  /\ ext = [t \in TUs |-> IF t \in {1, 2} THEN Fd(t) ELSE -1]
  /\ tu_mutex = [t \in TUs |-> 1]
  /\ freed = [t \in TUs |-> FALSE]
  /\ pbx_entries = [e \in Exts |-> IF e + 1 \in {1, 2} THEN e + 1 ELSE NULL]
  /\ num_entries = 2
  /\ pbx_mutex = 1
  /\ entries_mutex = 1
  /\ pbx_freed = FALSE
  /\ client_status = 1
  /\ sock = [t \in TUs |-> "open"]
  /\ sent = [t \in TUs |->
               IF t \in {1, 2} THEN Line(t, TU_CONNECTED, "", peer[t], ext)
               ELSE <<"", -1>>]
  /\ pc = [t \in TUs |-> IF t \in {1, 2} THEN "loop" ELSE "start"]
  /\ cmd = [t \in TUs |-> "none"]
  /\ dial_ext = [t \in TUs |-> -1]
  /\ recipient = [t \in TUs |-> NULL]
  /\ sd_pc = "accept"
  /\ sd_i = 0
  /\ nevents = 0
  /\ ndrops = 0
  /\ transcript = Unrecorded
  /\ script = NoScript

\* The system from a call in progress, under fair scheduling.
ConnSpec ==
  /\ ConnInit
  /\ [][Next]_vars
  /\ \A s \in TUs : WF_vars(ThreadStep(s))
  /\ WF_vars(ShutdownStep)

\* A and B are connected with each other, A's client has closed its socket
\* and A's thread is in its loop, where read() will return 0.
ClosedWhileConnected(a, b) ==
  /\ a # b
  /\ Registered(a)
  /\ state[a] = TU_CONNECTED /\ state[b] = TU_CONNECTED
  /\ peer[a] = b /\ peer[b] = a
  /\ sock[a] = "closed"
  /\ pc[a] = "loop"

\* C8: disconnect while connected.  If A and B are connected with each
\* other and A's client closes its socket then, under fair scheduling, A's
\* thread eventually finishes: A's registry slot is empty and the thread has
\* ended.
C8_DisconnectWhileConnected ==
  \A a \in TUs : \A b \in TUs :
    ClosedWhileConnected(a, b) ~> (pc[a] = "done" /\ ~Registered(a))

\* C9: shutdown drains and terminates.  Once pbx_shutdown has started then,
\* under fair scheduling, num_entries becomes 0 and pbx_shutdown returns.
C9_ShutdownTerminates ==
  (sd_pc # "accept") ~> (num_entries = 0 /\ sd_pc \in {"returned", "exited"})

\* ------------------------------------------------------- scripted clients
\* A command line as a client sends it: the sender, the command word and,
\* for dial, the number (-1 otherwise).
Commands(S) ==
  {<<s, c, -1>> : s \in S, c \in {"pickup", "hangup", "chat"}}
    \cup {<<s, "dial", e>> : s \in S, e \in DialArgs}

RECURSIVE SeqsUpTo(_, _)
SeqsUpTo(C, n) ==
  IF n = 0 THEN {<<>>}
  ELSE LET shorter == SeqsUpTo(C, n - 1) IN
         shorter \cup {Append(q, c) : q \in {r \in shorter : Len(r) = n - 1}, c \in C}

\* The scenario of the specification's example: C1 is TU 1 at extension 0,
\* C2 is TU 2 at extension 1.
ExampleScript ==
  << <<1, "pickup", -1>>, <<1, "dial", 1>>, <<2, "pickup", -1>>,
     <<1, "chat", -1>>, <<2, "hangup", -1>>, <<1, "dial", 0>> >>

Scripts == SeqsUpTo(Commands({1, 2}), MaxScript) \cup {ExampleScript}

\* Every client has connected and its thread has registered its TU, which
\* is on hook; clients 1 and 2 then send the commands of a script one after
\* the other, each once the call made for the previous one has returned.
\* The lines they receive from here on are recorded.
SeqInit ==
  /\ state = [t \in TUs |-> TU_ON_HOOK]
  /\ peer = [t \in TUs |-> NULL]
  /\ references = [t \in TUs |-> 1]
  /\ ext = [t \in TUs |-> Fd(t)]
  /\ tu_mutex = [t \in TUs |-> 1]
  /\ freed = [t \in TUs |-> FALSE]
  /\ pbx_entries = [e \in Exts |-> IF e + 1 \in TUs THEN e + 1 ELSE NULL]
  /\ num_entries = NumTU
  /\ pbx_mutex = 1
  /\ entries_mutex = 1
  /\ pbx_freed = FALSE
  /\ client_status = 1
  /\ sock = [t \in TUs |-> "open"]
  /\ sent = [t \in TUs |-> Line(t, TU_ON_HOOK, "", NULL, ext)]
  /\ pc = [t \in TUs |-> "loop"]
  /\ cmd = [t \in TUs |-> "none"]
  /\ dial_ext = [t \in TUs |-> -1]
  /\ recipient = [t \in TUs |-> NULL]
  /\ sd_pc = "accept"
  /\ sd_i = 0
  /\ nevents = 0
  /\ ndrops = 0
  /\ transcript = [on |-> TRUE, lines |-> <<>>]
  /\ \E q \in Scripts : script = [cmds |-> q, next |-> 1, mark |-> 0]

\* Every thread is back in read(): the previous command has been served.
AllIdle == \A t \in TUs : pc[t] = "loop"

\* read() returns the next command of the script, which is parsed as in
\* ReadCommand.
ScriptRead(s) ==
  /\ Running
  /\ AllIdle
  /\ sock[s] = "open"
  /\ script.next <= Len(script.cmds)
  /\ LET c == script.cmds[script.next] IN
       /\ c[1] = s
       /\ IF c[2] = "dial" /\ c[3] > PBX_MAX_EXTENSIONS - 1
          THEN Goto(s, IF client_status = 0 THEN "unreg" ELSE "loop")
          ELSE /\ cmd' = [cmd EXCEPT ![s] = c[2]]
               /\ pc' = [pc EXCEPT ![s] = c[2]]
               /\ dial_ext' = [dial_ext EXCEPT ![s] = c[3]]
               /\ UNCHANGED recipient
  /\ script' = [script EXCEPT !.next = @ + 1, !.mark = Len(transcript.lines)]
  /\ UNCHANGED <<tuVars, pbxVars, client_status, sock, sent, transcript, sdVars,
                 nevents, ndrops>>

SeqNext ==
  \E s \in TUs :
    \/ ScriptRead(s)
    \/ PickupLock(s) \/ PickupConnect(s) \/ PickupPost(s)
    \/ HangupLock(s) \/ HangupPeer(s) \/ HangupRingBack(s) \/ HangupRingBackPost(s)
    \/ DialLookup(s) \/ DialSelf(s) \/ DialLockFirst(s) \/ DialCommit(s)
    \/ ChatLock(s) \/ ChatSend(s) \/ ChatPost(s)

SeqSpec == SeqInit /\ [][SeqNext]_vars

\* The script has been sent to its end and served.
ScriptDone == script.next > Len(script.cmds) /\ AllIdle

\* The lines client t has received, in order.
Heard(t) == SelectSeq(transcript.lines, LAMBDA l : l[1] = t)

\* ------------------------------------------------------------ dial (C11, C12)
\* The thread of s takes the step that ends tu_dial's test with both
\* semaphores held.
DialTested(s) == pc[s] = "dial_lock2" /\ pc'[s] # "dial_lock2"

\* C11: busy target.  A dial from DIAL_TONE that reaches the test with both
\* semaphores held and finds another TU that is not ON_HOOK or has a peer
\* puts the caller in BUSY_SIGNAL and changes neither the target's state,
\* peer and count nor what its client has received; a TU in DIAL_TONE that
\* dials itself becomes BUSY_SIGNAL.
C11_BusyTarget ==
  [][\A s \in TUs :
       LET target == recipient[s] IN
         /\ ( /\ DialTested(s)
              /\ state[s] = TU_DIAL_TONE
              /\ target # s
              /\ (state[target] # TU_ON_HOOK \/ peer[target] # NULL) )
            =>
            ( /\ state'[s] = TU_BUSY_SIGNAL
              /\ state'[target] = state[target]
              /\ peer'[target] = peer[target]
              /\ references'[target] = references[target]
              /\ sent'[target] = sent[target] )
         /\ ( /\ pc[s] = "dial_tu" /\ pc'[s] # "dial_tu"
              /\ state[s] = TU_DIAL_TONE
              /\ target = s )
            => state'[s] = TU_BUSY_SIGNAL]_vars

\* The command that read() hands to the thread of s in this step of a
\* scripted run.
ScriptCommand(s) == script.cmds[script.next]

Served(s) ==
  /\ script' # script
  /\ ScriptCommand(s)[1] = s

\* The extension resolves to no TU: malformed (-1), beyond the table, or a
\* vacant slot.
NoTarget(e) ==
  \/ e = -1
  \/ e > PBX_MAX_EXTENSIONS - 1
  \/ (e \in Exts /\ pbx_entries[e] = NULL)

\* C12: dial to no target.  When a TU in DIAL_TONE dials an extension that
\* resolves to no TU, the lookup gives tu_dial a null target, and the caller
\* becomes ERROR and is told ERROR while no other TU changes.
C12_DialNoTarget ==
  [][\A s \in TUs :
       /\ ( /\ Served(s)
            /\ ScriptCommand(s)[2] = "dial"
            /\ ScriptCommand(s)[3] > PBX_MAX_EXTENSIONS - 1
            /\ state[s] = TU_DIAL_TONE )
          => state'[s] = TU_ERROR
       /\ ( /\ pc[s] = "dial" /\ pc'[s] = "dial_tu"
            /\ NoTarget(dial_ext[s]) )
          => recipient'[s] = NULL
       /\ ( /\ pc[s] = "dial_tu" /\ pc'[s] # "dial_tu"
            /\ recipient[s] = NULL
            /\ state[s] = TU_DIAL_TONE )
          => ( /\ state' = [state EXCEPT ![s] = TU_ERROR]
               /\ sent' = [sent EXCEPT ![s] = <<"ERROR", -1>>]
               /\ peer' = peer
               /\ references' = references )]_vars

\* ---------------------------------------------------------- hangup (C13 ..)
\* The thread of s takes the step of tu_hangup's TU_CONNECTED / TU_RINGING
\* branch.
HungUpFromCall(s) == pc[s] = "hangup_peer" /\ pc'[s] # "hangup_peer"

\* C13 (as claimed): a TU in RINGING whose peer is in RING_BACK hangs up:
\* the TU goes to ON_HOOK and the peer goes to ON_HOOK.
C13_RingingHangupPeerOnHook ==
  [][\A s \in TUs :
       ( /\ HungUpFromCall(s)
         /\ state[s] = TU_RINGING
         /\ state[peer[s]] = TU_RING_BACK )
       => (state'[s] = TU_ON_HOOK /\ state'[peer[s]] = TU_ON_HOOK)]_vars

\* C13 (amended): a TU in RINGING whose peer is in RING_BACK hangs up: the
\* TU goes to ON_HOOK and the peer goes to DIAL_TONE; so does the peer of a
\* TU that hangs up in CONNECTED.
C13_HangupPeerDialTone ==
  [][\A s \in TUs :
       ( /\ HungUpFromCall(s)
         /\ \/ state[s] = TU_RINGING /\ state[peer[s]] = TU_RING_BACK
            \/ state[s] = TU_CONNECTED )
       => (state'[s] = TU_ON_HOOK /\ state'[peer[s]] = TU_DIAL_TONE)]_vars

\* C13 witness: TU 1 has called TU 2, which hung up while ringing; TU 1 has
\* dial tone and TU 2 is on hook.
C13_Witness ==
  /\ script.cmds = << <<1, "pickup", -1>>, <<1, "dial", 1>>, <<2, "hangup", -1>> >>
  /\ ScriptDone
  /\ state[1] = TU_DIAL_TONE
  /\ state[2] = TU_ON_HOOK

\* The thread of s takes the step of tu_hangup's TU_RING_BACK branch that
\* runs with both semaphores held.
HungUpFromRingBack(s) == pc[s] = "hangup_rb" /\ pc'[s] # "hangup_rb"

\* C14: peering teardown.  The step of hangup that dissolves a peering, in
\* the CONNECTED / RINGING branch and in the RING_BACK branch, clears both
\* peer fields while both semaphores are held and leaves each of the two
\* counts exactly 1 lower.
C14_PeeringTeardown ==
  [][\A s \in TUs :
       (HungUpFromCall(s) \/ HungUpFromRingBack(s))
       => LET p == peer[s] IN
            /\ peer'[s] = NULL
            /\ peer'[p] = NULL
            /\ references'[s] = references[s] - 1
            /\ references'[p] = references[p] - 1]_vars

\* The record of lines grows by exactly the lines in more (nothing is
\* compared where no record is kept).
Hears(more) == transcript.on => transcript'.lines = transcript.lines \o more

\* C15: dial / hangup round trip.  When a caller in RING_BACK hangs up
\* while the TU it called is still RINGING, both TUs are ON_HOOK afterwards
\* and each client is sent ON HOOK with its own extension, and nothing else
\* is sent.
C15_DialHangupRoundTrip ==
  [][\A s \in TUs :
       LET p == peer[s] IN
         ( /\ HungUpFromRingBack(s)
           /\ state[p] = TU_RINGING /\ peer[p] = s
           /\ sock[s] = "open" /\ sock[p] = "open" )
         => ( /\ state'[s] = TU_ON_HOOK
              /\ state'[p] = TU_ON_HOOK
              /\ sent'[s] = <<"ON HOOK", ext[s]>>
              /\ sent'[p] = <<"ON HOOK", ext[p]>>
              /\ Hears(<< <<s, "ON HOOK", ext[s]>>, <<p, "ON HOOK", ext[p]>> >>) )]_vars

\* C15 witness: TU 1 picked up, dialled TU 2 and hung up; both are on hook
\* and have received their lines.
C15_Witness ==
  /\ script.cmds = << <<1, "pickup", -1>>, <<1, "dial", 1>>, <<1, "hangup", -1>> >>
  /\ ScriptDone
  /\ state[1] = TU_ON_HOOK /\ state[2] = TU_ON_HOOK
  /\ Heard(1) = << <<1, "DIAL TONE", -1>>, <<1, "RING BACK", -1>>, <<1, "ON HOOK", 0>> >>
  /\ Heard(2) = << <<2, "RINGING", -1>>, <<2, "ON HOOK", 1>> >>


\* The step of tu_pickup that answers a call: s, which was found in
\* TU_RINGING, has taken its peer's semaphore.
Answers(s) == pc[s] = "pickup_peer" /\ pc'[s] # "pickup_peer"

PicksUp(s) == pc[s] = "pickup" /\ state[s] # TU_RINGING /\ pc'[s] # "pickup"

\* The script starts with two pickups of the same TU.
PicksUpTwice(s) ==
  /\ Len(script.cmds) >= 2
  /\ script.cmds[1] = <<s, "pickup", -1>>
  /\ script.cmds[2] = <<s, "pickup", -1>>

\* C17: two pickups in a row on a TU that is ON_HOOK: after the first the TU
\* is in DIAL_TONE and its client has been sent DIAL TONE, after the second
\* it is still in DIAL_TONE and the client has been sent exactly DIAL TONE
\* twice. A pickup in any state other than ON_HOOK and RINGING changes no
\* state, peer or count and sends the line of the current state again.
C17_PickupIdempotent ==
  /\ [](\A s \in TUs :
          (PicksUpTwice(s) /\ AllIdle) =>
             /\ script.next = 2 =>
                  /\ state[s] = TU_DIAL_TONE
                  /\ transcript.lines = << <<s, "DIAL TONE", -1>> >>
             /\ script.next = 3 =>
                  /\ state = [t \in TUs |-> IF t = s THEN TU_DIAL_TONE ELSE TU_ON_HOOK]
                  /\ transcript.lines =
                       << <<s, "DIAL TONE", -1>>, <<s, "DIAL TONE", -1>> >>)
  /\ [][\A s \in TUs :
          PicksUp(s) =>
            /\ peer' = peer /\ references' = references
            /\ state' = [state EXCEPT ![s] =
                           IF @ = TU_ON_HOOK THEN TU_DIAL_TONE ELSE @]
            /\ sock[s] = "open" =>
                 /\ sent'[s] = Line(s, state'[s], "", peer[s], ext)
                 /\ Hears(<< <<s>> \o Line(s, state'[s], "", peer[s], ext) >>)]_vars

C17_Witness ==
  /\ script.cmds = << <<2, "pickup", -1>>, <<2, "pickup", -1>> >>
  /\ ScriptDone
  /\ state[2] = TU_DIAL_TONE
  /\ transcript.lines = << <<2, "DIAL TONE", -1>>, <<2, "DIAL TONE", -1>> >>


\* The TU whose command was read last, and the lines client t has received
\* since that command was read.
Invoker == script.cmds[script.next - 1][1]

Since(t) ==
  SelectSeq(SubSeq(transcript.lines, script.mark + 1, Len(transcript.lines)),
            LAMBDA l : l[1] = t)

\* The lines client t receives in a step.
HearsNow(t) ==
  SelectSeq(SubSeq(transcript'.lines, Len(transcript.lines) + 1, Len(transcript'.lines)),
            LAMBDA l : l[1] = t)

\* The state lines of send_to_client.
StateLines ==
  {"ON HOOK", "RINGING", "DIAL TONE", "RING BACK", "BUSY SIGNAL", "CONNECTED", "ERROR"}

\* The step of tu_chat that writes the message to the peer of s.
ChatsTo(s, t) == pc[s] = "chat_peer" /\ pc'[s] # "chat_peer" /\ peer[s] = t

\* C18: every command that has been served (pickup, hangup, dial with any
\* argument, chat, in any state) has written exactly one line, a state line,
\* to the client of the TU that sent it; and a step of a command writes one
\* line to the client of another TU exactly when it changes that TU's state
\* or delivers a chat message to it.
C18_NotificationPerOperation ==
  /\ []((script.next > 1 /\ AllIdle) =>
          /\ Len(Since(Invoker)) = 1
          /\ Since(Invoker)[1][2] \in StateLines)
  /\ [][\A t \in TUs :
          pc'[t] = pc[t] =>
            Len(HearsNow(t)) =
              IF state'[t] # state[t] \/ \E s \in TUs : ChatsTo(s, t) THEN 1 ELSE 0]_vars


\* A step of tu_chat by s.
Chats(s) == pc[s] \in {"chat", "chat_peer", "chat_post"} /\ pc'[s] # pc[s]

\* C19: no step of chat changes the state, peer or count of any TU.  The
\* chat of a CONNECTED TU sends the message line to its peer's client and
\* CONNECTED with the peer's extension to its own; the chat of a TU that is
\* not CONNECTED returns at once and writes to no client.
C19_ChatFrame ==
  [][\A s \in TUs :
       Chats(s) =>
         /\ state' = state /\ peer' = peer /\ references' = references
         /\ (pc[s] = "chat" /\ state[s] # TU_CONNECTED) =>
              /\ pc'[s] \in {"loop", "unreg"}
              /\ sent' = sent
              /\ Hears(<< >>)
         /\ (pc[s] = "chat" /\ state[s] = TU_CONNECTED) =>
              /\ pc'[s] = "chat_peer"
              /\ sent' = sent
         /\ (pc[s] = "chat_peer" /\ sock[s] = "open" /\ sock[peer[s]] = "open") =>
              /\ state[s] = TU_CONNECTED
              /\ sent'[peer[s]] = <<"CHAT", -1>>
              /\ sent'[s] = <<"CONNECTED", ext[peer[s]]>>
              /\ \A t \in TUs \ {s, peer[s]} : sent'[t] = sent[t]
              /\ Hears(<< <<s, "CONNECTED", ext[peer[s]]>>, <<peer[s], "CHAT", -1>> >>)
         /\ pc[s] = "chat_post" => sent' = sent]_vars

C19_Witness ==
  /\ script.cmds = << <<1, "pickup", -1>>, <<1, "dial", 1>>, <<2, "pickup", -1>>,
                      <<2, "chat", -1>> >>
  /\ ScriptDone
  /\ state = [t \in TUs |-> IF t \in {1, 2} THEN TU_CONNECTED ELSE TU_ON_HOOK]
  /\ peer[1] = 2 /\ peer[2] = 1
  /\ references[1] = 2 /\ references[2] = 2
  /\ Since(1) = << <<1, "CHAT", -1>> >>
  /\ Since(2) = << <<2, "CONNECTED", 0>> >>


\* C20: the call scenario.  With TU 1 (extension 0) and TU 2 (extension 1)
\* registered and on hook, the commands 1 pickup, 1 dial 1, 2 pickup,
\* 1 chat, 2 hangup, 1 dial 0 are all served and the clients receive, in
\* this order and nothing else: 1 DIAL TONE; 1 RING BACK, 2 RINGING;
\* 2 CONNECTED 0, 1 CONNECTED 1; 1 CONNECTED 1, 2 CHAT; 2 ON HOOK 1,
\* 1 DIAL TONE; 1 BUSY SIGNAL.
C20_CallScenario ==
  LET expected ==
        << <<1, "DIAL TONE", -1>>,
           <<1, "RING BACK", -1>>, <<2, "RINGING", -1>>,
           <<2, "CONNECTED", 0>>, <<1, "CONNECTED", 1>>,
           <<1, "CONNECTED", 1>>, <<2, "CHAT", -1>>,
           <<2, "ON HOOK", 1>>, <<1, "DIAL TONE", -1>>,
           <<1, "BUSY SIGNAL", -1>> >>
      \* the number of lines received once k commands have been served
      after == <<0, 1, 3, 5, 7, 9, 10>>
  IN  (script.cmds = ExampleScript /\ AllIdle) =>
         transcript.lines = SubSeq(expected, 1, after[script.next])

C20_Witness ==
  /\ script.cmds = ExampleScript
  /\ ScriptDone
  /\ Len(transcript.lines) = 10
  /\ Heard(1) = << <<1, "DIAL TONE", -1>>, <<1, "RING BACK", -1>>, <<1, "CONNECTED", 1>>,
                   <<1, "CONNECTED", 1>>, <<1, "DIAL TONE", -1>>, <<1, "BUSY SIGNAL", -1>> >>
  /\ Heard(2) = << <<2, "RINGING", -1>>, <<2, "CONNECTED", 0>>, <<2, "CHAT", -1>>,
                   <<2, "ON HOOK", 1>> >>
  /\ state = [t \in TUs |-> IF t = 1 THEN TU_BUSY_SIGNAL ELSE TU_ON_HOOK]


\* -------------------------------------------------------------- registry
\* No registry operation is in progress: both PBX semaphores are free and
\* pbx_shutdown has not freed the table.
RegistryIdle == pbx_mutex > 0 /\ entries_mutex > 0 /\ ~pbx_freed

Occupied == {e \in Exts : pbx_entries[e] # NULL}

\* C21: registry consistency.  Whenever no registry operation is in
\* progress, num_entries is the number of occupied slots, the TU in an
\* occupied slot i has extension i, and no TU is in two slots.
C21_RegistryConsistency ==
  RegistryIdle =>
    /\ num_entries = Cardinality(Occupied)
    /\ \A e \in Occupied : ext[pbx_entries[e]] = e
    /\ \A e, f \in Occupied : pbx_entries[e] = pbx_entries[f] => e = f

\* Two TUs registered and a third registered and unregistered again, with
\* a call set up between the two.
C21_Witness ==
  /\ RegistryIdle
  /\ num_entries = 2
  /\ \E t \in TUs : pc[t] = "done" /\ ext[t] # -1 /\ ~Registered(t)
  /\ \E a, b \in TUs : a # b /\ Registered(a) /\ Registered(b) /\ peer[a] = b


\* ------------------------------------------------ pbx_register on any number
\* The numbers pbx_register can be called with: below the table, in it,
\* beyond it.
RegArgs == (-1) .. PBX_MAX_EXTENSIONS

\* The server as it starts, with the lines the clients receive recorded.
RegInit ==
  /\ state = [t \in TUs |-> TU_ON_HOOK]
  /\ peer = [t \in TUs |-> NULL]
  /\ references = [t \in TUs |-> 0]
  /\ ext = [t \in TUs |-> -1]
  /\ tu_mutex = [t \in TUs |-> 1]
  /\ freed = [t \in TUs |-> FALSE]
  /\ pbx_entries = [e \in Exts |-> NULL]
  /\ num_entries = 0
  /\ pbx_mutex = 1
  /\ entries_mutex = 1
  /\ pbx_freed = FALSE
  /\ client_status = 1
  /\ sock = [t \in TUs |-> "open"]
  /\ sent = [t \in TUs |-> <<"", -1>>]
  /\ pc = [t \in TUs |-> "start"]
  /\ cmd = [t \in TUs |-> "none"]
  /\ dial_ext = [t \in TUs |-> -1]
  /\ recipient = [t \in TUs |-> NULL]
  /\ sd_pc = "accept"
  /\ sd_i = 0
  /\ nevents = 0
  /\ ndrops = 0
  /\ transcript = [on |-> TRUE, lines |-> <<>>]
  /\ script = NoScript

\* Every new TU is registered at any number; a client may close its
\* connection, and its thread then hangs up and unregisters.
RegNext ==
  \E s \in TUs :
    \/ \E e \in RegArgs : pbx_register(s, e)
    \/ ClientClose(s) \/ ReadEOF(s) \/ HangupLock(s)
    \/ UnregisterLock(s) \/ UnregisterRemove(s)

RegSpec == RegInit /\ [][RegNext]_vars

\* C22: pbx_register(tu, ext) on an empty slot of the table stores tu there,
\* sets its extension, leaves it ON_HOOK with count 1, adds 1 to num_entries
\* and sends its client the one line ON HOOK <ext>; on an occupied slot or
\* a number outside the table it fails, and the table, num_entries and every
\* TU's extension, state and count stay as they were.  The call returns
\* with both registry semaphores posted as often as it took them.
C22_RegisterOutcome ==
  [][\A s \in TUs : \A e \in RegArgs :
       pbx_register(s, e) =>
         /\ IF e \in Exts /\ pbx_entries[e] = NULL
            THEN /\ pbx_entries' = [pbx_entries EXCEPT ![e] = s]
                 /\ ext' = [ext EXCEPT ![s] = e]
                 /\ state' = [state EXCEPT ![s] = TU_ON_HOOK]
                 /\ references' = [references EXCEPT ![s] = 1]
                 /\ num_entries' = num_entries + 1
                 /\ pc'[s] # "done"
                 /\ Hears(<< <<s, "ON HOOK", e>> >>)
            ELSE /\ pbx_entries' = pbx_entries
                 /\ num_entries' = num_entries
                 /\ ext' = ext /\ state' = state /\ references' = references
                 /\ pc'[s] = "done"
                 /\ Hears(<< >>)
         /\ pbx_mutex' = pbx_mutex /\ entries_mutex' = entries_mutex]_vars

\* TU 1 registered at a number that is not its connection's, TU 2 refused
\* there, TU 3 refused too.
C22_Witness ==
  /\ pbx_entries = [e \in Exts |-> IF e = 2 THEN 1 ELSE NULL]
  /\ ext = [t \in TUs |-> IF t = 1 THEN 2 ELSE -1]
  /\ num_entries = 1
  /\ references = [t \in TUs |-> IF t = 1 THEN 1 ELSE 0]
  /\ pc[1] = "loop" /\ pc[2] = "done" /\ pc[3] = "done"
  /\ transcript.lines = << <<1, "ON HOOK", 2>> >>


\* --------------------------------------------------------------- SIGPIPE
\* Session s leaves its command loop for pbx_unregister.
LeavesLoop(s) == pc[s] # "unreg" /\ pc'[s] = "unreg"

\* C23: broken-pipe isolation.  A write to a closed connection ends no
\* session's command loop: a session leaves its loop only from the hangup
\* it makes when its own read() returns end of file or an error.
C23_BrokenPipeIsolation ==
  [][\A s \in TUs : LeavesLoop(s) => cmd[s] = "eof"]_vars


\* ------------------------------------------------------------ lock order
\* Thread s holds pbx_mutex and is at a sem_wait for a TU's semaphore: in
\* tu_dial called by pbx_dial, or in tu_extension called by pbx_unregister.
WaitsForTUInRegistry(s) ==
  pc[s] \in {"dial_tu", "dial_lock1", "dial_lock2", "unreg_t"}

\* pbx_shutdown holds pbx_mutex and is at tu_fileno's sem_wait.
SweepWaitsForTU == sd_pc = "sweep" /\ SweepLeft # {}

\* C24: the registry lock is a leaf lock.  No thread waits for or takes a
\* TU's semaphore while it holds the registry's, in register, unregister,
\* dial or shutdown.
C24_RegistryLeafLock ==
  /\ \A s \in TUs : ~WaitsForTUInRegistry(s)
  /\ ~SweepWaitsForTU


\* ------------------------------------------------------------ session exit
\* pbx_unregister takes the TU of session s out of the table.
Unregisters(s) ==
  /\ pc[s] = "unreg_t" /\ pc'[s] = "done"
  /\ Registered(s) /\ ~Registered(s)'

\* C25: orderly session exit.  A session leaves its loop only through a
\* hangup, and when pbx_unregister takes its TU out of the table the TU is
\* ON_HOOK, has no peer and is no other TU's peer.
C25_OrderlyExit ==
  [][\A s \in TUs :
       /\ LeavesLoop(s) => cmd[s] = "eof"
       /\ Unregisters(s) =>
            /\ state[s] = TU_ON_HOOK
            /\ peer[s] = NULL
            /\ \A t \in TUs : peer[t] # s]_vars


\* ------------------------------------------------------------------ hangup
\* The command served last.
LastCommand == script.cmds[script.next - 1]

\* The step of tu_hangup on a TU with no call: the whole operation.
HangsUpIdle(s) ==
  /\ pc[s] = "hangup" /\ pc'[s] # "hangup"
  /\ state[s] \in {TU_ON_HOOK, TU_DIAL_TONE, TU_BUSY_SIGNAL, TU_ERROR}

\* C26: hangup always ends on hook.  Once a hangup has been served, from
\* whatever state, the TU is ON_HOOK and its client has been sent ON HOOK
\* with the TU's own extension; a hangup from ON_HOOK, DIAL_TONE,
\* BUSY_SIGNAL or ERROR changes no other TU's state, peer or count.
C26_HangupEndsOnHook ==
  /\ []((script.next > 1 /\ AllIdle /\ LastCommand[2] = "hangup") =>
          /\ state[Invoker] = TU_ON_HOOK
          /\ Since(Invoker) = << <<Invoker, "ON HOOK", ext[Invoker]>> >>)
  /\ [][\A s \in TUs :
          HangsUpIdle(s) =>
            /\ state'[s] = TU_ON_HOOK
            /\ sock[s] = "open" => sent'[s] = <<"ON HOOK", ext[s]>>
            /\ \A t \in TUs \ {s} :
                 /\ state'[t] = state[t]
                 /\ peer'[t] = peer[t]
                 /\ references'[t] = references[t]]_vars

\* A hangup served in TU_ERROR, the state a dial of a malformed number
\* leaves.
C26_Witness ==
  /\ script.cmds = << <<1, "pickup", -1>>, <<1, "dial", -1>>, <<1, "hangup", -1>> >>
  /\ ScriptDone
  /\ state[1] = TU_ON_HOOK
  /\ Heard(1) = << <<1, "DIAL TONE", -1>>, <<1, "ERROR", -1>>, <<1, "ON HOOK", 0>> >>


\* ------------------------------------------------------------- wait cycles
\* The tasks: one service thread per TU, and the thread of pbx_shutdown.
ShutdownTask == 0

Tasks == TUs \cup {ShutdownTask}

\* The TU semaphores a task has taken and not yet posted.
HoldsTU(a) ==
  IF a = ShutdownTask THEN {}
  ELSE IF AtPeerWait(a) THEN {a}
  ELSE IF pc[a] \in {"pickup_post", "hangup_rb_post", "chat_post"} THEN {peer[a]}
  ELSE IF pc[a] = "dial_lock2" THEN {DialFirst(a, recipient[a])}
  ELSE {}

\* The TU semaphore a task is at the sem_wait for.
WaitsTU(a) ==
  IF a = ShutdownTask THEN (IF SweepWaitsForTU THEN {SweepNext} ELSE {})
  ELSE IF pc[a] \in {"pickup", "hangup", "chat", "dial_tu", "unreg_t"} THEN {a}
  ELSE IF AtPeerWait(a) THEN {peer[a]}
  ELSE IF pc[a] = "dial_lock1" THEN {DialFirst(a, recipient[a])}
  ELSE IF pc[a] = "dial_lock2" THEN {DialSecond(a, recipient[a])}
  ELSE {}

\* The task is between the waits and the posts of the registry's semaphores.
HoldsRegistry(a) ==
  IF a = ShutdownTask THEN sd_pc = "sweep"
  ELSE pc[a] \in {"dial_tu", "dial_lock1", "dial_lock2", "unreg_t"}

\* The task is at the sem_wait for pbx_mutex.
WaitsRegistry(a) ==
  IF a = ShutdownTask THEN sd_pc = "sweep_lock"
  ELSE pc[a] \in {"dial", "unreg"}

\* Task a cannot go on before task b posts a semaphore b holds.
WaitsOn(a, b) ==
  /\ a # b
  /\ \/ \E t \in WaitsTU(a) \cap HoldsTU(b) : tu_mutex[t] = 0
     \/ WaitsRegistry(a) /\ HoldsRegistry(b) /\ pbx_mutex = 0

\* A set of tasks each of which waits on another of the set.
WaitCycle(C) == C # {} /\ \A a \in C : \E b \in C : WaitsOn(a, b)

\* C27: deadlock freedom among peers.  No reachable state has a cycle of
\* tasks each holding a TU semaphore or the registry's and waiting for a
\* semaphore another task of the cycle holds.
C27_NoWaitCycle == \A C \in SUBSET Tasks : ~WaitCycle(C)


\* ---------------------------------------------------------- use after free
\* The step of tu_hangup's TU_CONNECTED / TU_RINGING branch: after its two
\* tu_unref calls it reads and writes the TU, its peer and both semaphores.
HangsUpPeer(s) == pc[s] = "hangup_peer" /\ pc'[s] # "hangup_peer"

\* A TU that some task can still reach: through its own thread, a peer
\* field or a slot of the registry.
Reachable(t) ==
  \/ pc[t] # "done"
  \/ \E u \in TUs : ~freed[u] /\ peer[u] = t
  \/ \E e \in Exts : pbx_entries[e] = t

\* C28: no use after free.  A TU is freed only by the step that brings its
\* count to 0; the tu_unref calls of a hangup free neither the TU nor the
\* peer the hangup goes on to use; and a freed TU is reachable by no task.
C28_NoUseAfterFree ==
  /\ [][\A t \in TUs : (~freed[t] /\ freed'[t]) => references'[t] = 0]_vars
  /\ [][\A s \in TUs :
          HangsUpPeer(s) => ~freed'[s] /\ ~freed'[peer[s]]]_vars
  /\ [](\A t \in TUs : freed[t] => ~Reachable(t))


\* ------------------------------------------------------------------ TU leak
\* The system with a call ringing: TU 1 has picked up and dialled
\* extension 1, TU 2 rings, and TU 2's client has closed its connection,
\* which its thread has not read yet.
RingInit ==
  /\ state = [t \in TUs |-> IF t = 1 THEN TU_RING_BACK
                            ELSE IF t = 2 THEN TU_RINGING ELSE TU_ON_HOOK]
  /\ peer = [t \in TUs |-> IF t = 1 THEN 2 ELSE IF t = 2 THEN 1 ELSE NULL]
  /\ references = [t \in TUs |-> IF t \in {1, 2} THEN 2 ELSE 0]
  /\ ext = [t \in TUs |-> IF t \in {1, 2} THEN Fd(t) ELSE -1]
  /\ tu_mutex = [t \in TUs |-> 1]
  /\ freed = [t \in TUs |-> FALSE]
  /\ pbx_entries = [e \in Exts |-> IF e + 1 \in {1, 2} THEN e + 1 ELSE NULL]
  /\ num_entries = 2
  /\ pbx_mutex = 1
  /\ entries_mutex = 1
  /\ pbx_freed = FALSE
  /\ client_status = 1
  /\ sock = [t \in TUs |-> IF t = 2 THEN "closed" ELSE "open"]
  /\ sent = [t \in TUs |->
               IF t \in {1, 2} THEN Line(t, state[t], "", peer[t], ext)
               ELSE <<"", -1>>]
  /\ pc = [t \in TUs |-> IF t \in {1, 2} THEN "loop" ELSE "start"]
  /\ cmd = [t \in TUs |-> "none"]
  /\ dial_ext = [t \in TUs |-> -1]
  /\ recipient = [t \in TUs |-> NULL]
  /\ sd_pc = "accept"
  /\ sd_i = 0
  /\ nevents = 0
  /\ ndrops = 0
  /\ transcript = Unrecorded
  /\ script = NoScript

\* The system from a ringing call.
RingSpec == RingInit /\ [][Next]_vars

\* Every session that began has ended, each by the hangup made at EOF
\* followed by pbx_unregister: the loop flag, whose clearing is the other
\* way out of the loop, is still set.
AllTerminated ==
  /\ client_status = 1
  /\ \A t \in TUs : pc[t] \in {"start", "done"}

\* C29: no TU leak.  When every session has terminated, each TU that was
\* registered has count 0 and has been destroyed, whatever calls it placed
\* or received.
C29_NoLeak ==
  AllTerminated =>
    \A t \in TUs : ext[t] # -1 => references[t] = 0 /\ freed[t]


\* ------------------------------------------------------- late registration
\* A step of pbx_register, pbx_dial or pbx_unregister that waits for, reads
\* or writes the registry's semaphores, count or table.
RegistryAccess(s) ==
  /\ pc[s] \in {"start", "dial", "unreg", "unreg_t"}
  /\ pc'[s] # pc[s]

\* pbx_shutdown is past its loop over the table and a TU is registered whose
\* connection the loop did not shut down.
LateRegistration ==
  /\ sd_pc = "poll"
  /\ \E s \in TUs : Registered(s) /\ sock[s] = "open" /\ pc[s] = "loop"

\* C30: shutdown versus late registration.  No session step accesses the
\* registry after pbx_shutdown has destroyed its semaphores and freed its
\* table, and pbx_shutdown returns although a TU was registered after its
\* loop over the table.
C30_LateRegistration ==
  /\ [][\A s \in TUs : RegistryAccess(s) => ~pbx_freed]_vars
  /\ (LateRegistration ~> sd_pc \in {"returned", "exited"})

====
